---- MODULE Spec2Model ----
(***************************************************************************)
(* Model of the nile-camera scanner client: the ISBN validator of the      *)
(* manual-entry modal, the scan debouncer of CameraScreen and the          *)
(* submission client postScanToAPI.                                        *)
(*                                                                         *)
(* JavaScript strings are modelled as sequences of one-character strings,  *)
(* so that stripping, trimming and pattern matching are computed.          *)
(***************************************************************************)
EXTENDS Integers, Sequences, FiniteSets, TLC

\* ------------------------------------------------------------------ bounds
MaxScans == 3      \* accepted submissions per behaviour
MaxTime  == 3000   \* the clock stops advancing here (ms)
TickStep == 1000   \* granularity of the clock (ms)
MaxRequests == 3   \* requests the ingestion endpoint receives per behaviour

\* --------------------------------------------------------------- constants
DEBOUNCE_DELAY == 2000

Null    == <<"null">>   \* JavaScript null (scannedISBN, scannedBook)
NoTimer == 0            \* scanDebounceTimer.current === null

\* ------------------------------------------------------------------ strings
Digits     == {"0", "1", "2", "3", "4", "5", "6", "7", "8", "9"}
Whitespace == {" ", "\t"}

\* value.replace(/[-\s]/g, '')
StripSeparators(value) ==
    SelectSeq(value, LAMBDA c : c \notin (Whitespace \cup {"-"}))

\* value.trim()
RECURSIVE TrimStart(_)
TrimStart(value) ==
    IF value # <<>> /\ Head(value) \in Whitespace
    THEN TrimStart(Tail(value))
    ELSE value

RECURSIVE TrimEnd(_)
TrimEnd(value) ==
    IF value # <<>> /\ value[Len(value)] \in Whitespace
    THEN TrimEnd(SubSeq(value, 1, Len(value) - 1))
    ELSE value

Trim(value) == TrimEnd(TrimStart(value))

\* /^[\dX]+$/i.test(value)
IsValidFormat(value) ==
    /\ value # <<>>
    /\ \A i \in 1..Len(value) : value[i] \in (Digits \cup {"X", "x"})

\* the patterns of the Validator contract and its normalisation to uppercase
MatchesISBN10(code) ==
    /\ Len(code) = 10
    /\ \A i \in 1..9 : code[i] \in Digits
    /\ code[10] \in (Digits \cup {"X", "x"})

MatchesISBN13(code) ==
    /\ Len(code) = 13
    /\ \A i \in 1..13 : code[i] \in Digits

ToUpperCase(code) ==
    [i \in 1..Len(code) |->
        IF code[i] = "x" THEN "X" ELSE IF code[i] = "a" THEN "A" ELSE code[i]]

\* validateISBN without its length check
validateISBN_FormatOnly(value) ==
    LET cleanedISBN == StripSeparators(value) IN
    IF ~IsValidFormat(cleanedISBN)
    THEN [valid |-> FALSE, error |-> "ISBN must contain only digits"]
    ELSE [valid |-> TRUE, error |-> ""]

\* validateISBN rejecting only texts that are too long
validateISBN_MaxLengthOnly(value) ==
    LET cleanedISBN == StripSeparators(value) IN
    IF Len(cleanedISBN) > 13
    THEN [valid |-> FALSE, error |-> "ISBN must be 10 or 13 digits"]
    ELSE IF ~IsValidFormat(cleanedISBN)
    THEN [valid |-> FALSE, error |-> "ISBN must contain only digits"]
    ELSE [valid |-> TRUE, error |-> ""]

\* validateISBN: the boolean it returns and the error it sets
validateISBN(value) ==
    LET cleanedISBN == StripSeparators(value) IN
    IF Len(cleanedISBN) # 10 /\ Len(cleanedISBN) # 13
    THEN [valid |-> FALSE, error |-> "ISBN must be 10 or 13 digits"]
    ELSE IF ~IsValidFormat(cleanedISBN)
    THEN [valid |-> FALSE, error |-> "ISBN must contain only digits"]
    ELSE [valid |-> TRUE, error |-> ""]

\* ------------------------------------------------------------------ inputs
ISBN13   == <<"9","7","8","0","1","3","4","6","7","0","9","4","2">>
ISBN13h  == <<"9","7","8","-","0","1","3","4","6","7","0","9","4","2">>
ISBN10x  == <<"0","1","2","3","4","5","6","7","8","x">>
EAN8     == <<"1","2","3","4","5","6","7","0">>
ISBN10xh == <<"0","-","1","2","3","4","5","6","7","8","-","x">>
Short    == <<"1","2","3">>
Blank    == <<" ">>

\* arrays of code values the camera hands to onCodeScanned; <<>> as a value
\* is a code without value
CodeFrames == {<<>>, <<ISBN13>>, <<EAN8, ISBN13>>, <<<<>>, ISBN13>>}

\* texts typed into the manual-entry field (maxLength 17)
Entries == {ISBN13h, Short, Blank}

\* assets/textbook-isbns.json: an entry with a trailing blank, the same ISBN
\* written with a hyphen, and an ISBN that is listed with hyphens only
TextbookData == <<ISBN13 \o <<" ">>, ISBN13h, ISBN10xh>>

\* ------------------------------------------------------------- submission
\* every response body of POST /api/scan the client may read
Bodies ==
    [success : BOOLEAN, warning : {"", "Could not fetch book metadata"},
     error : {"", "Invalid ISBN format"},
     code : {"", "INVALID_ISBN", "MISSING_ISBN", "DB_ERROR"},
     book : {Null, <<"book", "Computer Networks">>}]

\* what the transport yields: a response, or an exception thrown by fetch
\* or by response.json()
Outcomes ==
    [kind : {"response"}, ok : BOOLEAN,
     statusText : {"Bad Request", "Internal Server Error"}, data : Bodies]
    \cup
    [kind : {"throw"}, class : {"TypeError", "SyntaxError", "string"},
     message : {"Network request failed", "JSON Parse error"}]

\* the outcomes the device model settles submissions with: success with a
\* book, partial success, a rejected ISBN, a network failure
Settlements ==
    {[kind |-> "response", ok |-> TRUE, statusText |-> "Bad Request",
      data |-> [success |-> TRUE, warning |-> "", error |-> "", code |-> "",
                book |-> <<"book", "Computer Networks">>]],
     [kind |-> "response", ok |-> TRUE, statusText |-> "Bad Request",
      data |-> [success |-> TRUE, warning |-> "Could not fetch book metadata",
                error |-> "", code |-> "", book |-> Null]],
     [kind |-> "response", ok |-> FALSE, statusText |-> "Bad Request",
      data |-> [success |-> FALSE, warning |-> "", error |-> "Invalid ISBN format",
                code |-> "INVALID_ISBN", book |-> Null]],
     [kind |-> "throw", class |-> "TypeError", message |-> "Network request failed"]}

ErrorClasses    == {"TypeError", "SyntaxError"}   \* error instanceof Error
NetworkMessages == {"Network request failed"}   \* message.includes(...)

\* the catch block taking every TypeError for a network failure
catchBlock_AnyTypeError(o) ==
    IF o.class = "TypeError"
    THEN [success |-> FALSE,
          message |-> "Network error. Please check your internet connection and try again.",
          book |-> Null]
    ELSE [success |-> FALSE,
          message |-> IF o.class \in ErrorClasses THEN o.message
                      ELSE "Unknown error occurred",
          book |-> Null]

\* the catch block of postScanToAPI
catchBlock(o) ==
    IF o.class = "TypeError" /\ o.message \in NetworkMessages
    THEN [success |-> FALSE,
          message |-> "Network error. Please check your internet connection and try again.",
          book |-> Null]
    ELSE [success |-> FALSE,
          message |-> IF o.class \in ErrorClasses THEN o.message
                      ELSE "Unknown error occurred",
          book |-> Null]

\* the not-ok branch without its tests of data.code
notOkBranch_IgnoresCode(o) ==
    [success |-> FALSE,
     message |-> IF o.data.error # "" THEN o.data.error
                 ELSE "Server error: " \o o.statusText,
     book |-> Null]

\* the branch of postScanToAPI for a response that is not ok
notOkBranch(o) ==
    IF o.data.code = "INVALID_ISBN"
    THEN [success |-> FALSE,
          message |-> "This barcode is not a valid ISBN. Please scan a book's ISBN barcode.",
          book |-> Null]
    ELSE IF o.data.code = "MISSING_ISBN"
    THEN [success |-> FALSE, message |-> "ISBN is required", book |-> Null]
    ELSE [success |-> FALSE,
          message |-> IF o.data.error # "" THEN o.data.error
                      ELSE "Server error: " \o o.statusText,
          book |-> Null]

\* the ok branch never handing the book of the response on
okBranch_DropsBook(o) ==
    IF o.data.success
    THEN IF o.data.warning # ""
         THEN [success |-> TRUE, message |-> o.data.warning, book |-> Null]
         ELSE [success |-> TRUE, message |-> "Scan saved successfully!",
               book |-> Null]
    ELSE [success |-> FALSE,
          message |-> IF o.data.error # "" THEN o.data.error
                      ELSE "Unknown error occurred",
          book |-> Null]

\* the ok branch handing the book of the response on beside a warning
okBranch_WarningKeepsBook(o) ==
    IF o.data.success
    THEN IF o.data.warning # ""
         THEN [success |-> TRUE, message |-> o.data.warning, book |-> o.data.book]
         ELSE [success |-> TRUE, message |-> "Scan saved successfully!",
               book |-> o.data.book]
    ELSE [success |-> FALSE,
          message |-> IF o.data.error # "" THEN o.data.error
                      ELSE "Unknown error occurred",
          book |-> Null]

\* the branch of postScanToAPI for a response that is ok
okBranch(o) ==
    IF o.data.success
    THEN IF o.data.warning # ""
         THEN [success |-> TRUE, message |-> o.data.warning, book |-> Null]
         ELSE [success |-> TRUE, message |-> "Scan saved successfully!",
               book |-> o.data.book]
    ELSE [success |-> FALSE,
          message |-> IF o.data.error # "" THEN o.data.error
                      ELSE "Unknown error occurred",
          book |-> Null]

\* postScanToAPI reading the success flag of the body before the status
postScanToAPI_BodyFirst(o) ==
    IF o.kind = "throw" THEN catchBlock(o)
    ELSE IF o.data.success THEN okBranch(o)
    ELSE IF ~o.ok THEN notOkBranch(o)
    ELSE okBranch(o)

\* postScanToAPI, from the response on: the ScanResult it resolves to
postScanToAPI(o) ==
    IF o.kind = "throw" THEN catchBlock(o)
    ELSE IF ~o.ok THEN notOkBranch(o)
    ELSE okBranch(o)

\* a catch block that throws on again what is not an Error
rejects_NonErrorRethrown(o) == o.kind = "throw" /\ o.class \notin ErrorClasses

\* the promise of postScanToAPI rejects when its catch block throws, as the
\* body is one try statement; the block reads error.message.includes only of
\* a TypeError, whose message would have to be something else than a string
rejects(o) == o.kind = "throw" /\ o.class = "TypeError" /\ o.message \notin STRING

\* what the catch block of processScannedISBN stores
catchBranch == [success |-> FALSE, message |-> "Failed to save scan.", book |-> Null]

\* ------------------------------------------------------------------- state
VARIABLES
    \* CameraScreen state
    isActive, scannedISBN, bookType, showConfirmModal, showManualEntry,
    isLoading, scanSuccess, scanMessage, scannedBook, scanCount,
    \* CameraScreen refs
    lastScannedISBN, isProcessing, scanDebounceTimer,
    \* ManualEntryModal state
    isbn, error,
    \* textbookService module state
    textbookISBNs, isLoaded,
    \* JavaScript runtime: clock, pending timeouts, pending postScanToAPI calls
    now, timers, inflight,
    \* history: accepted submissions, requests sent, and the last call of
    \* processScannedISBN (flip changes with every call)
    acceptLog, requests, lastCall,
    \* ingestion endpoint: the Book policy on provider failure, the Book and
    \* ScanEvent rows of the Persistence Store, the requests being handled,
    \* and the responses sent
    policy, books, scanEvents, handlers, responses

screen   == <<isActive, scannedISBN, bookType, showConfirmModal, isLoading,
              scanSuccess, scanMessage, scannedBook, scanCount>>
debounce == <<lastScannedISBN, isProcessing, scanDebounceTimer>>
entry    == <<isbn, error>>
textbook == <<textbookISBNs, isLoaded>>
runtime  == <<timers, inflight>>
history  == <<acceptLog, requests, lastCall>>
device   == <<screen, showManualEntry, debounce, entry, textbook, now, runtime,
              history>>
server   == <<policy, books, scanEvents, handlers, responses>>
vars     == <<device, server>>

\* the Persistence Store is empty and no request has been received
StoreInit ==
    /\ books = <<>>
    /\ scanEvents = {}
    /\ handlers = {}
    /\ responses = {}

DeviceInit ==
    /\ isActive = TRUE
    /\ scannedISBN = Null
    /\ bookType = "other"
    /\ showConfirmModal = FALSE
    /\ showManualEntry = FALSE
    /\ isLoading = FALSE
    /\ scanSuccess = FALSE
    /\ scanMessage = ""
    /\ scannedBook = Null
    /\ scanCount = 0
    /\ lastScannedISBN = <<>>
    /\ isProcessing = FALSE
    /\ scanDebounceTimer = NoTimer
    /\ isbn = <<>>
    /\ error = ""
    /\ textbookISBNs = {}
    /\ isLoaded = FALSE
    /\ now = 0
    /\ timers = {}
    /\ inflight = {}
    /\ acceptLog = <<>>
    /\ requests = <<>>
    /\ lastCall = [isbn |-> <<>>, accepted |-> FALSE, flip |-> FALSE]

Init == DeviceInit /\ policy = "stub" /\ StoreInit

\* ---------------------------------------------------------- textbookService
loadTextbookISBNs ==
    /\ IF isLoaded
       THEN UNCHANGED textbook
       ELSE /\ textbookISBNs' = {Trim(TextbookData[i]) : i \in 1..Len(TextbookData)}
            /\ isLoaded' = TRUE
    /\ UNCHANGED <<server, screen, showManualEntry, debounce, entry, now, runtime,
                   history>>

isTextbook(code) ==
    IF ~isLoaded THEN FALSE ELSE StripSeparators(code) \in textbookISBNs

getBookType(code) == IF isTextbook(code) THEN "textbook" ELSE "other"

\* ------------------------------------------------------------- CameraScreen
\* the mount effect of CameraScreen, which calls loadTextbookISBNs, has run;
\* no handler of the component is invoked before it
Mounted == isLoaded

\* the guard without the isProcessing test
Debounced_LastOnly(code) == code = lastScannedISBN

\* the guard without the lastScannedISBN test
Debounced_BusyOnly(code) == isProcessing

\* the guard also turning every code away while a reset timer is pending
Debounced_WhileTimerPending(code) ==
    isProcessing \/ code = lastScannedISBN \/ timers # {}

\* the guard of processScannedISBN: TRUE when the call returns early
Debounced(code) == isProcessing \/ code = lastScannedISBN

\* a debounce guard whose rejection of the last code restarts its timer
processScannedISBN_RejectRestartsWindow(code, via) ==
    IF Debounced(code)
    THEN /\ lastCall' = [isbn |-> code, accepted |-> FALSE, flip |-> ~lastCall.flip]
         /\ timers' = IF code = lastScannedISBN
                      THEN {[id |-> scanDebounceTimer, due |-> now + DEBOUNCE_DELAY]}
                      ELSE timers
         /\ UNCHANGED <<screen, debounce, inflight, acceptLog, requests>>
    ELSE /\ Len(acceptLog) < MaxScans
         /\ isProcessing' = TRUE
         /\ lastScannedISBN' = code
         /\ LET id == Len(acceptLog) + 1 IN
            /\ timers' = {t \in timers : t.id # scanDebounceTimer}
                             \cup {[id |-> id, due |-> now + DEBOUNCE_DELAY]}
            /\ scanDebounceTimer' = id
            /\ inflight' = inflight \cup
                               {[id |-> id, isbn |-> code, via |-> via,
                                 phase |-> "deviceId"]}
         /\ isActive' = FALSE
         /\ isLoading' = TRUE
         /\ scannedISBN' = code
         /\ bookType' = getBookType(code)
         /\ showConfirmModal' = TRUE
         /\ acceptLog' = Append(acceptLog, [isbn |-> code, at |-> now, via |-> via])
         /\ lastCall' = [isbn |-> code, accepted |-> TRUE, flip |-> ~lastCall.flip]
         /\ UNCHANGED <<scanSuccess, scanMessage, scannedBook, scanCount, requests>>


\* an acceptance that schedules its timer without clearing the pending one
processScannedISBN_KeepsOldTimer(code, via) ==
    IF Debounced(code)
    THEN /\ lastCall' = [isbn |-> code, accepted |-> FALSE, flip |-> ~lastCall.flip]
         /\ UNCHANGED <<screen, debounce, runtime, acceptLog, requests>>
    ELSE /\ Len(acceptLog) < MaxScans
         /\ isProcessing' = TRUE
         /\ lastScannedISBN' = code
         /\ LET id == Len(acceptLog) + 1 IN
            /\ timers' = timers \cup {[id |-> id, due |-> now + DEBOUNCE_DELAY]}
            /\ scanDebounceTimer' = id
            /\ inflight' = inflight \cup
                               {[id |-> id, isbn |-> code, via |-> via,
                                 phase |-> "deviceId"]}
         /\ isActive' = FALSE
         /\ isLoading' = TRUE
         /\ scannedISBN' = code
         /\ bookType' = getBookType(code)
         /\ showConfirmModal' = TRUE
         /\ acceptLog' = Append(acceptLog, [isbn |-> code, at |-> now, via |-> via])
         /\ lastCall' = [isbn |-> code, accepted |-> TRUE, flip |-> ~lastCall.flip]
         /\ UNCHANGED <<scanSuccess, scanMessage, scannedBook, scanCount, requests>>


\* an acceptance that opens the confirmation modal without setting isLoading
processScannedISBN_NoSpinner(code, via) ==
    IF Debounced(code)
    THEN /\ lastCall' = [isbn |-> code, accepted |-> FALSE, flip |-> ~lastCall.flip]
         /\ UNCHANGED <<screen, debounce, runtime, acceptLog, requests>>
    ELSE /\ Len(acceptLog) < MaxScans
         /\ isProcessing' = TRUE
         /\ lastScannedISBN' = code
         /\ LET id == Len(acceptLog) + 1 IN
            /\ timers' = {t \in timers : t.id # scanDebounceTimer}
                             \cup {[id |-> id, due |-> now + DEBOUNCE_DELAY]}
            /\ scanDebounceTimer' = id
            /\ inflight' = inflight \cup
                               {[id |-> id, isbn |-> code, via |-> via,
                                 phase |-> "deviceId"]}
         /\ isActive' = FALSE
         /\ isLoading' = isLoading
         /\ scannedISBN' = code
         /\ bookType' = getBookType(code)
         /\ showConfirmModal' = TRUE
         /\ acceptLog' = Append(acceptLog, [isbn |-> code, at |-> now, via |-> via])
         /\ lastCall' = [isbn |-> code, accepted |-> TRUE, flip |-> ~lastCall.flip]
         /\ UNCHANGED <<scanSuccess, scanMessage, scannedBook, scanCount, requests>>


\* processScannedISBN up to its await; the callers say what else changes
processScannedISBN(code, via) ==
    IF Debounced(code)
    THEN /\ lastCall' = [isbn |-> code, accepted |-> FALSE, flip |-> ~lastCall.flip]
         /\ UNCHANGED <<screen, debounce, runtime, acceptLog, requests>>
    ELSE /\ Len(acceptLog) < MaxScans
         /\ isProcessing' = TRUE
         /\ lastScannedISBN' = code
         /\ LET id == Len(acceptLog) + 1 IN
            /\ timers' = {t \in timers : t.id # scanDebounceTimer}
                             \cup {[id |-> id, due |-> now + DEBOUNCE_DELAY]}
            /\ scanDebounceTimer' = id
            /\ inflight' = inflight \cup
                               {[id |-> id, isbn |-> code, via |-> via,
                                 phase |-> "deviceId"]}
         /\ isActive' = FALSE
         /\ isLoading' = TRUE
         /\ scannedISBN' = code
         /\ bookType' = getBookType(code)
         /\ showConfirmModal' = TRUE
         /\ acceptLog' = Append(acceptLog, [isbn |-> code, at |-> now, via |-> via])
         /\ lastCall' = [isbn |-> code, accepted |-> TRUE, flip |-> ~lastCall.flip]
         /\ UNCHANGED <<scanSuccess, scanMessage, scannedBook, scanCount, requests>>

\* codeScanner.onCodeScanned
onCodeScanned(codes) ==
    /\ Mounted
    /\ IF ~isActive \/ Len(codes) = 0
       THEN UNCHANGED <<screen, debounce, runtime, history>>
       ELSE IF codes[1] = <<>>
       THEN UNCHANGED <<screen, debounce, runtime, history>>
       ELSE processScannedISBN(codes[1], "camera")
    /\ UNCHANGED <<server, showManualEntry, entry, textbook, now>>

\* postScanToAPI issuing its fetch twice
sendRequest_Twice(call) ==
    /\ call \in inflight
    /\ call.phase = "deviceId"
    /\ inflight' = (inflight \ {call}) \cup {[call EXCEPT !.phase = "fetch"]}
    /\ requests' = requests \o <<[isbn |-> call.isbn, via |-> call.via],
                                 [isbn |-> call.isbn, via |-> call.via]>>
    /\ UNCHANGED <<server, screen, showManualEntry, debounce, entry, textbook, now,
                   timers, acceptLog, lastCall>>

\* postScanToAPI up to fetch: getScannerId has resolved (to the device id, or
\* to its fallback id when the lookup threw) and fetch sends the request
sendRequest(call) ==
    /\ call \in inflight
    /\ call.phase = "deviceId"
    /\ inflight' = (inflight \ {call}) \cup {[call EXCEPT !.phase = "fetch"]}
    /\ requests' = Append(requests, [isbn |-> call.isbn, via |-> call.via])
    /\ UNCHANGED <<server, screen, showManualEntry, debounce, entry, textbook, now,
                   timers, acceptLog, lastCall>>

\* processScannedISBN resetting isProcessing in the try block, after a
\* successful result only, instead of in the finally block
settle_ResetOnSuccessOnly(call, o) ==
    /\ call \in inflight
    /\ call.phase = "fetch"
    /\ LET result == IF rejects(o) THEN catchBranch ELSE postScanToAPI(o) IN
       /\ scanSuccess' = result.success
       /\ scanMessage' = result.message
       /\ scannedBook' = result.book
       /\ scanCount' = IF result.success THEN scanCount + 1 ELSE scanCount
       /\ isProcessing' = IF result.success THEN FALSE ELSE isProcessing
    /\ isLoading' = FALSE
    /\ inflight' = inflight \ {call}
    /\ UNCHANGED <<server, isActive, scannedISBN, bookType, showConfirmModal,
                   showManualEntry, lastScannedISBN, scanDebounceTimer, entry,
                   textbook, now, timers, history>>

\* a finally block that also clears lastScannedISBN and the pending timer
\* when the submission failed, so that the code can be retried at once
settle_FailureClearsLast(call, o) ==
    /\ call \in inflight
    /\ call.phase = "fetch"
    /\ LET result == IF rejects(o) THEN catchBranch ELSE postScanToAPI(o) IN
       /\ scanSuccess' = result.success
       /\ scanMessage' = result.message
       /\ scannedBook' = result.book
       /\ scanCount' = IF result.success THEN scanCount + 1 ELSE scanCount
       /\ lastScannedISBN' = IF result.success THEN lastScannedISBN ELSE <<>>
       /\ timers' = IF result.success THEN timers ELSE {}
    /\ isLoading' = FALSE
    /\ isProcessing' = FALSE
    /\ inflight' = inflight \ {call}
    /\ UNCHANGED <<server, isActive, scannedISBN, bookType, showConfirmModal,
                   showManualEntry, scanDebounceTimer, entry,
                   textbook, now, history>>

\* a try block that counts a scan only when the result carries a book
settle_CountsBooksOnly(call, o) ==
    /\ call \in inflight
    /\ call.phase = "fetch"
    /\ LET result == IF rejects(o) THEN catchBranch ELSE postScanToAPI(o) IN
       /\ scanSuccess' = result.success
       /\ scanMessage' = result.message
       /\ scannedBook' = result.book
       /\ scanCount' = IF result.success /\ result.book # Null
                       THEN scanCount + 1 ELSE scanCount
    /\ isLoading' = FALSE
    /\ isProcessing' = FALSE
    /\ inflight' = inflight \ {call}
    /\ UNCHANGED <<server, isActive, scannedISBN, bookType, showConfirmModal,
                   showManualEntry, lastScannedISBN, scanDebounceTimer, entry,
                   textbook, now, timers, history>>

\* processScannedISBN after its await: the try block with the ScanResult the
\* promise resolved to, or the catch block when the promise rejected, and the
\* finally block
settle(call, o) ==
    /\ call \in inflight
    /\ call.phase = "fetch"
    /\ LET result == IF rejects(o) THEN catchBranch ELSE postScanToAPI(o) IN
       /\ scanSuccess' = result.success
       /\ scanMessage' = result.message
       /\ scannedBook' = result.book
       /\ scanCount' = IF result.success THEN scanCount + 1 ELSE scanCount
    /\ isLoading' = FALSE
    /\ isProcessing' = FALSE
    /\ inflight' = inflight \ {call}
    /\ UNCHANGED <<server, isActive, scannedISBN, bookType, showConfirmModal,
                   showManualEntry, lastScannedISBN, scanDebounceTimer, entry,
                   textbook, now, timers, history>>

\* a timeout callback that leaves lastScannedISBN as it is
debounceTimeout_KeepsLast(t) ==
    /\ t \in timers
    /\ now >= t.due
    /\ timers' = timers \ {t}
    /\ UNCHANGED <<server, screen, showManualEntry, debounce, entry, textbook, now,
                   inflight, history>>

\* the setTimeout callback of processScannedISBN
debounceTimeout(t) ==
    /\ t \in timers
    /\ now >= t.due
    /\ timers' = timers \ {t}
    /\ lastScannedISBN' = <<>>
    /\ UNCHANGED <<server, screen, showManualEntry, isProcessing, scanDebounceTimer,
                   entry, textbook, now, inflight, history>>

\* a close handler that abandons the submission in flight
handleCloseModal_Cancels ==
    /\ showConfirmModal
    /\ showConfirmModal' = FALSE
    /\ scannedISBN' = Null
    /\ scanMessage' = ""
    /\ scannedBook' = Null
    /\ isActive' = TRUE
    /\ inflight' = {}
    /\ isProcessing' = FALSE
    /\ isLoading' = FALSE
    /\ UNCHANGED <<server, bookType, scanSuccess, scanCount, showManualEntry,
                   lastScannedISBN, scanDebounceTimer, entry, textbook, now,
                   timers, history>>

handleCloseModal ==
    /\ showConfirmModal
    /\ showConfirmModal' = FALSE
    /\ scannedISBN' = Null
    /\ scanMessage' = ""
    /\ scannedBook' = Null
    /\ isActive' = TRUE
    /\ UNCHANGED <<server, bookType, isLoading, scanSuccess, scanCount, showManualEntry,
                   debounce, entry, textbook, now, runtime, history>>

\* what ConfirmationModal renders from the props CameraScreen passes: the
\* spinner while loading; otherwise the title, the book section when the scan
\* succeeded with a book, and the message when there is one and no book
ConfirmationModal ==
    [visible |-> showConfirmModal,
     loading |-> isLoading,
     title   |-> IF isLoading THEN ""
                 ELSE IF scanSuccess THEN "Scan Saved!" ELSE "Error",
     book    |-> IF ~isLoading /\ scanSuccess /\ scannedBook # Null
                 THEN scannedBook ELSE Null,
     message |-> IF ~isLoading /\ scanMessage # "" /\ scannedBook = Null
                 THEN scanMessage ELSE ""]

handleOpenManualEntry ==
    /\ Mounted
    /\ ~showConfirmModal /\ ~showManualEntry
    /\ isActive' = FALSE
    /\ showManualEntry' = TRUE
    /\ UNCHANGED <<server, scannedISBN, bookType, showConfirmModal, isLoading,
                   scanSuccess, scanMessage, scannedBook, scanCount, debounce,
                   entry, textbook, now, runtime, history>>

\* ManualEntryModal.handleClose, which calls handleCloseManualEntry
handleClose ==
    /\ showManualEntry
    /\ isbn' = <<>>
    /\ error' = ""
    /\ showManualEntry' = FALSE
    /\ isActive' = TRUE
    /\ UNCHANGED <<server, scannedISBN, bookType, showConfirmModal, isLoading,
                   scanSuccess, scanMessage, scannedBook, scanCount, debounce,
                   textbook, now, runtime, history>>

\* TextInput.onChangeText
onChangeText(text) ==
    /\ showManualEntry
    /\ isbn' = text
    /\ error' = ""
    /\ UNCHANGED <<server, screen, showManualEntry, debounce, textbook, now, runtime,
                   history>>

\* ManualEntryModal.handleSubmit, which calls handleManualSubmit on success
handleSubmit ==
    /\ showManualEntry
    /\ IF Trim(isbn) = <<>>
       THEN /\ error' = "Please enter an ISBN"
            /\ UNCHANGED <<screen, showManualEntry, debounce, isbn, runtime, history>>
       ELSE IF validateISBN(isbn).valid
       THEN /\ showManualEntry' = FALSE
            /\ processScannedISBN(StripSeparators(isbn), "manual")
            /\ isbn' = <<>>
            /\ error' = ""
       ELSE /\ error' = validateISBN(isbn).error
            /\ UNCHANGED <<screen, showManualEntry, debounce, isbn, runtime, history>>
    /\ UNCHANGED <<server, textbook, now>>

\* the clock advances
Tick ==
    /\ now + TickStep <= MaxTime
    /\ now' = now + TickStep
    /\ UNCHANGED <<server, screen, showManualEntry, debounce, entry, textbook, runtime,
                   history>>

Next ==
    \/ loadTextbookISBNs
    \/ \E codes \in CodeFrames : onCodeScanned(codes)
    \/ \E call \in inflight : sendRequest(call)
    \/ \E call \in inflight, o \in Settlements : settle(call, o)
    \/ \E t \in timers : debounceTimeout(t)
    \/ handleCloseModal
    \/ handleOpenManualEntry
    \/ handleClose
    \/ \E text \in Entries : onChangeText(text)
    \/ handleSubmit
    \/ Tick

Spec == Init /\ [][Next]_vars

\* the device under the scheduling of the JavaScript runtime: time passes,
\* and a timer that is due has its callback run
SpecFair ==
    /\ Spec
    /\ WF_vars(Tick)
    /\ WF_vars(\E t \in timers : debounceTimeout(t))

\* ------------------------------------------- the textbook service on its own
\* the ISBNs getBookType is asked about: three codes, plain and with a hyphen
\* or a blank at every position, and the hyphenated spellings of the list
Queries ==
    {ISBN13, ISBN10x, EAN8, ISBN13h, ISBN10xh}
    \cup UNION {{SubSeq(b, 1, i) \o <<c>> \o SubSeq(b, i + 1, Len(b)) :
                     i \in 0..Len(b), c \in {"-", " "}} :
                 b \in {ISBN13, ISBN10x, EAN8}}

\* a call of getBookType whose result is kept, as processScannedISBN keeps it
\* in bookType beside the ISBN
classify(code) ==
    /\ scannedISBN' = code
    /\ bookType' = getBookType(code)
    /\ UNCHANGED <<server, isActive, showConfirmModal, isLoading, scanSuccess,
                   scanMessage, scannedBook, scanCount, showManualEntry, debounce,
                   entry, textbook, now, runtime, history>>

NextT ==
    \/ loadTextbookISBNs
    \/ \E code \in Queries : classify(code)

SpecT == Init /\ [][NextT]_vars

\* ------------------------------------------------- the validator on its own
\* texts for the manual-entry field: two well-formed codes with one character
\* replaced or one character inserted, and every prefix of the 13-digit code
Plain10 == <<"0","1","2","3","4","5","6","7","8","9">>
Typed   == {"7", "X", "x", "a", "-", " "}

Replace(text, i, c) == [text EXCEPT ![i] = c]
Insert(text, i, c)  == SubSeq(text, 1, i) \o <<c>> \o SubSeq(text, i + 1, Len(text))

ValidatorInputs ==
    {Replace(b, i, c) : b \in {Plain10} , i \in 1..10, c \in Typed}
    \cup {Replace(b, i, c) : b \in {ISBN13} , i \in 1..13, c \in Typed}
    \cup {Insert(b, i, c) : b \in {Plain10} , i \in 0..10, c \in Typed}
    \cup {Insert(b, i, c) : b \in {ISBN13} , i \in 0..13, c \in Typed}
    \cup {SubSeq(ISBN13, 1, n) : n \in 0..13}
    \cup {Blank, ISBN13h, ISBN10x}

\* the manual-entry modal is open on a mounted screen and a text has been typed
InitV ==
    /\ isActive = FALSE
    /\ scannedISBN = Null
    /\ bookType = "other"
    /\ showConfirmModal = FALSE
    /\ showManualEntry = TRUE
    /\ isLoading = FALSE
    /\ scanSuccess = FALSE
    /\ scanMessage = ""
    /\ scannedBook = Null
    /\ scanCount = 0
    /\ lastScannedISBN = <<>>
    /\ isProcessing = FALSE
    /\ scanDebounceTimer = NoTimer
    /\ isbn \in ValidatorInputs
    /\ error = ""
    /\ textbookISBNs = {Trim(TextbookData[i]) : i \in 1..Len(TextbookData)}
    /\ isLoaded = TRUE
    /\ now = 0
    /\ timers = {}
    /\ inflight = {}
    /\ acceptLog = <<>>
    /\ requests = <<>>
    /\ lastCall = [isbn |-> <<>>, accepted |-> FALSE, flip |-> FALSE]
    /\ policy = "stub"
    /\ StoreInit

NextV == handleSubmit

SpecV == InitV /\ [][NextV]_vars

\* --------------------------------------------- one submission on its own
\* codes of the submission that is in flight
ClientCodes == {ISBN13, ISBN10x, EAN8}

\* the camera has detected a code on a mounted screen, the code was accepted
\* and postScanToAPI has sent its request
InitC ==
    /\ isActive = FALSE
    /\ scannedISBN \in ClientCodes
    /\ textbookISBNs = {Trim(TextbookData[i]) : i \in 1..Len(TextbookData)}
    /\ isLoaded = TRUE
    /\ bookType = getBookType(scannedISBN)
    /\ showConfirmModal = TRUE
    /\ showManualEntry = FALSE
    /\ isLoading = TRUE
    /\ scanSuccess = FALSE
    /\ scanMessage = ""
    /\ scannedBook = Null
    /\ scanCount = 0
    /\ lastScannedISBN = scannedISBN
    /\ isProcessing = TRUE
    /\ scanDebounceTimer = 1
    /\ isbn = <<>>
    /\ error = ""
    /\ now = 0
    /\ timers = {[id |-> 1, due |-> DEBOUNCE_DELAY]}
    /\ inflight = {[id |-> 1, isbn |-> scannedISBN, via |-> "camera",
                     phase |-> "fetch"]}
    /\ acceptLog = <<[isbn |-> scannedISBN, at |-> 0, via |-> "camera"]>>
    /\ requests = <<[isbn |-> scannedISBN, via |-> "camera"]>>
    /\ lastCall = [isbn |-> scannedISBN, accepted |-> TRUE, flip |-> TRUE]
    /\ policy = "stub"
    /\ StoreInit

\* the transport answers with any outcome, or does not answer; the user may
\* close the modal; the clock and the reset timer run
NextC ==
    \/ \E call \in inflight, o \in Outcomes : settle(call, o)
    \/ \E t \in timers : debounceTimeout(t)
    \/ handleCloseModal
    \/ Tick

SpecC == InitC /\ [][NextC]_vars

\* the JavaScript runtime keeps the clock running and runs every timeout
\* callback that is due; nothing obliges the transport to answer or the user
\* to act
SpecCFair ==
    /\ SpecC
    /\ WF_vars(Tick)
    /\ WF_vars(\E t \in timers : debounceTimeout(t))

\* ------------------------------------------------------- ingestion endpoint
\* POST /api/scan, as the design specifies it: the algorithm of the Ingestion
\* Endpoint over the Persistence Store and the Metadata Provider.
Policies      == {"stub", "skip"}      \* Book row on provider failure
LookupResults == {"BookMetadata", "NotFound", "ProviderError"}

\* request bodies {isbn, scanner_id}; Null is a body without isbn
RequestBodies ==
    {[isbn |-> ISBN13, scanner_id |-> "dev-1"],
     [isbn |-> ISBN13h, scanner_id |-> "dev-2"],
     [isbn |-> ISBN10x, scanner_id |-> "dev-2"],
     [isbn |-> Short, scanner_id |-> "dev-1"],
     [isbn |-> Null, scanner_id |-> "dev-1"]}

\* the Validator contract: the normalised code, and whether it is accepted
normalize(value) == ToUpperCase(StripSeparators(value))

accepts(value) ==
    MatchesISBN10(StripSeparators(value)) \/ MatchesISBN13(StripSeparators(value))

\* rows of the Book table with this ISBN
BookRows(code) == {i \in 1..Len(books) : books[i].isbn = code}

\* the BookData of a response
BookData(row) == <<"book", row.title, row.scan_count>>

ErrorEnvelope(id, value, scanner, code) ==
    [scan_id |-> id, isbn |-> value, scanner_id |-> scanner, success |-> FALSE,
     code |-> code, book |-> Null, warning |-> "", found |-> FALSE,
     lookup |-> "none"]

\* the 200 response of a handler; book is null with a warning when the
\* Metadata Provider gave no metadata
SuccessResponse(h, book) ==
    [scan_id |-> h.id, isbn |-> h.raw, scanner_id |-> h.scanner_id,
     success |-> TRUE, code |-> "",
     book |-> IF h.lookup \in {"NotFound", "ProviderError"} THEN Null
              ELSE book,
     warning |-> IF h.lookup \in {"NotFound", "ProviderError"}
                 THEN "Could not fetch book metadata" ELSE "",
     found |-> h.found, lookup |-> h.lookup]

\* the ScanEvent written on arrival, before the isbn is validated
receive_WritesFirst(value, scanner) ==
    /\ Cardinality(responses) + Cardinality(handlers) < MaxRequests
    /\ LET id == Cardinality(responses) + Cardinality(handlers) + 1 IN
       /\ scanEvents' = scanEvents \cup
                            {[scan_id |-> id, isbn |-> value, scanner_id |-> scanner]}
       /\ IF value = Null
          THEN /\ responses' = responses \cup
                                   {ErrorEnvelope(id, value, scanner, "MISSING_ISBN")}
               /\ UNCHANGED handlers
          ELSE IF ~accepts(value)
          THEN /\ responses' = responses \cup
                                   {ErrorEnvelope(id, value, scanner, "INVALID_ISBN")}
               /\ UNCHANGED handlers
          ELSE /\ handlers' = handlers \cup
                                  {[id |-> id, raw |-> value, isbn |-> normalize(value),
                                    scanner_id |-> scanner, pc |-> "findBook",
                                    found |-> FALSE, lookup |-> "none"]}
               /\ UNCHANGED responses
    /\ UNCHANGED <<device, policy, books>>

\* steps 1 and 2: a request arrives; it is rejected, or its handling starts
receive(value, scanner) ==
    /\ Cardinality(responses) + Cardinality(handlers) < MaxRequests
    /\ LET id == Cardinality(responses) + Cardinality(handlers) + 1 IN
       IF value = Null
       THEN /\ responses' = responses \cup
                                {ErrorEnvelope(id, value, scanner, "MISSING_ISBN")}
            /\ UNCHANGED handlers
       ELSE IF ~accepts(value)
       THEN /\ responses' = responses \cup
                                {ErrorEnvelope(id, value, scanner, "INVALID_ISBN")}
            /\ UNCHANGED handlers
       ELSE /\ handlers' = handlers \cup
                               {[id |-> id, raw |-> value, isbn |-> normalize(value),
                                 scanner_id |-> scanner, pc |-> "insertScanEvent",
                                 found |-> FALSE, lookup |-> "none"]}
            /\ UNCHANGED responses
    /\ UNCHANGED <<device, policy, books, scanEvents>>

\* step 3 writing no ScanEvent when the device has one for this ISBN already
insertScanEvent_Deduplicates(h) ==
    /\ h \in handlers
    /\ h.pc = "insertScanEvent"
    /\ scanEvents' =
           IF \E e \in scanEvents : e.isbn = h.isbn /\ e.scanner_id = h.scanner_id
           THEN scanEvents
           ELSE scanEvents \cup {[scan_id |-> h.id, isbn |-> h.isbn,
                                  scanner_id |-> h.scanner_id]}
    /\ handlers' = (handlers \ {h}) \cup {[h EXCEPT !.pc = "findBook"]}
    /\ UNCHANGED <<device, policy, books, responses>>

\* step 3: the ScanEvent row is created
insertScanEvent(h) ==
    /\ h \in handlers
    /\ h.pc = "insertScanEvent"
    /\ scanEvents' = scanEvents \cup
                         {[scan_id |-> h.id, isbn |-> h.isbn,
                           scanner_id |-> h.scanner_id]}
    /\ handlers' = (handlers \ {h}) \cup {[h EXCEPT !.pc = "findBook"]}
    /\ UNCHANGED <<device, policy, books, responses>>

\* step 4: the Book is looked up by its normalised ISBN
findBook(h) ==
    /\ h \in handlers
    /\ h.pc = "findBook"
    /\ LET present == BookRows(h.isbn) # {} IN
       handlers' = (handlers \ {h}) \cup
                       {[h EXCEPT !.found = present,
                                  !.pc = IF present THEN "upsertBook" ELSE "lookup"]}
    /\ UNCHANGED <<device, policy, books, scanEvents, responses>>

\* a provider failure rolling the ScanEvent of the request back
lookup_RollsBack(h, r) ==
    /\ h \in handlers
    /\ h.pc = "lookup"
    /\ IF r = "BookMetadata" \/ policy = "stub"
       THEN /\ handlers' = (handlers \ {h}) \cup
                               {[h EXCEPT !.lookup = r, !.pc = "upsertBook"]}
            /\ UNCHANGED responses
       ELSE /\ handlers' = handlers \ {h}
            /\ responses' = responses \cup
                                {SuccessResponse([h EXCEPT !.lookup = r], Null)}
    /\ scanEvents' = IF r = "BookMetadata" THEN scanEvents
                     ELSE {e \in scanEvents : e.scan_id # h.id}
    /\ UNCHANGED <<device, policy, books>>

\* step 4, Book absent: the Metadata Provider answers with r; under the skip
\* policy a failure ends the request without a Book
lookup(h, r) ==
    /\ h \in handlers
    /\ h.pc = "lookup"
    /\ IF r = "BookMetadata" \/ policy = "stub"
       THEN /\ handlers' = (handlers \ {h}) \cup
                               {[h EXCEPT !.lookup = r, !.pc = "upsertBook"]}
            /\ UNCHANGED responses
       ELSE /\ handlers' = handlers \ {h}
            /\ responses' = responses \cup
                                {SuccessResponse([h EXCEPT !.lookup = r], Null)}
    /\ UNCHANGED <<device, policy, books, scanEvents>>

\* the write leaving the scan_count of a Book that is present as it is
upsertBook_NoIncrement(h) ==
    /\ h \in handlers
    /\ h.pc = "upsertBook"
    /\ LET title == IF h.lookup = "BookMetadata" THEN "Computer Networks" ELSE ""
           row   == IF BookRows(h.isbn) = {}
                    THEN [isbn |-> h.isbn, scan_count |-> 1, title |-> title]
                    ELSE LET old == books[CHOOSE i \in BookRows(h.isbn) : TRUE] IN
                         [old EXCEPT !.title = IF title # "" THEN title ELSE @]
       IN /\ books' = IF BookRows(h.isbn) = {}
                      THEN Append(books, row)
                      ELSE [i \in 1..Len(books) |->
                               IF i \in BookRows(h.isbn) THEN row ELSE books[i]]
          /\ responses' = responses \cup {SuccessResponse(h, BookData(row))}
    /\ handlers' = handlers \ {h}
    /\ UNCHANGED <<device, policy, scanEvents>>

\* the write as read-modify-write: it creates or increments by what findBook
\* saw, not by the row as it is now
upsertBook_ReadModifyWrite(h) ==
    /\ h \in handlers
    /\ h.pc = "upsertBook"
    /\ LET title == IF h.lookup = "BookMetadata" THEN "Computer Networks" ELSE ""
           row   == IF ~h.found
                    THEN [isbn |-> h.isbn, scan_count |-> 1, title |-> title]
                    ELSE LET old == books[CHOOSE i \in BookRows(h.isbn) : TRUE] IN
                         [old EXCEPT !.scan_count = @ + 1,
                                     !.title = IF title # "" THEN title ELSE @]
       IN /\ books' = IF ~h.found
                      THEN Append(books, row)
                      ELSE [i \in 1..Len(books) |->
                               IF i \in BookRows(h.isbn) THEN row ELSE books[i]]
          /\ responses' = responses \cup {SuccessResponse(h, BookData(row))}
    /\ handlers' = handlers \ {h}
    /\ UNCHANGED <<device, policy, scanEvents>>

\* step 4, the write, and step 5: the Book is created with scan_count 1, or
\* its scan_count is incremented, in one atomic operation on the row as it
\* is now; then the handler responds
upsertBook(h) ==
    /\ h \in handlers
    /\ h.pc = "upsertBook"
    /\ LET title == IF h.lookup = "BookMetadata" THEN "Computer Networks" ELSE ""
           row   == IF BookRows(h.isbn) = {}
                    THEN [isbn |-> h.isbn, scan_count |-> 1, title |-> title]
                    ELSE LET old == books[CHOOSE i \in BookRows(h.isbn) : TRUE] IN
                         [old EXCEPT !.scan_count = @ + 1,
                                     !.title = IF title # "" THEN title ELSE @]
       IN /\ books' = IF BookRows(h.isbn) = {}
                      THEN Append(books, row)
                      ELSE [i \in 1..Len(books) |->
                               IF i \in BookRows(h.isbn) THEN row ELSE books[i]]
          /\ responses' = responses \cup {SuccessResponse(h, BookData(row))}
    /\ handlers' = handlers \ {h}
    /\ UNCHANGED <<device, policy, scanEvents>>

InitS == DeviceInit /\ policy \in Policies /\ StoreInit

NextS ==
    \/ \E body \in RequestBodies : receive(body.isbn, body.scanner_id)
    \/ \E h \in handlers : insertScanEvent(h)
    \/ \E h \in handlers : findBook(h)
    \/ \E h \in handlers, r \in LookupResults : lookup(h, r)
    \/ \E h \in handlers : upsertBook(h)

SpecS == InitS /\ [][NextS]_vars

\* ----------------------------------------- the device and the endpoint
\* one device scanning against the endpoint: the requests the client sends
\* are received in the order sent, and a submission settles on the response
\* to its request or on a network failure
E2EFrames == {<<ISBN13>>, <<EAN8>>}

\* requests the endpoint has received
Received == Cardinality(responses) + Cardinality(handlers)

\* a response of the endpoint as fetch and response.json() yield it
ResponseOutcome(r) ==
    [kind |-> "response", ok |-> r.success,
     statusText |-> IF r.success THEN "OK" ELSE "Bad Request",
     data |-> [success |-> r.success, warning |-> r.warning,
               error |-> IF r.success THEN "" ELSE "Invalid ISBN format",
               code |-> r.code, book |-> r.book]]

\* fetch rejecting
NetworkFailure ==
    [kind |-> "throw", class |-> "TypeError", message |-> "Network request failed"]

NextE ==
    \/ loadTextbookISBNs
    \/ \E codes \in E2EFrames : onCodeScanned(codes)
    \/ \E call \in inflight : sendRequest(call)
    \/ /\ Received < Len(requests)
       /\ receive(requests[Received + 1].isbn, "dev-1")
    \/ \E h \in handlers : insertScanEvent(h)
    \/ \E h \in handlers : findBook(h)
    \/ \E h \in handlers, r \in LookupResults : lookup(h, r)
    \/ \E h \in handlers : upsertBook(h)
    \/ \E call \in inflight, r \in responses :
           r.scan_id = call.id /\ settle(call, ResponseOutcome(r))
    \/ \E call \in inflight : settle(call, NetworkFailure)
    \/ \E t \in timers : debounceTimeout(t)
    \/ handleCloseModal
    \/ Tick

SpecE == InitS /\ [][NextE]_vars

\* ------------------------------------------------------------------ claims
\* a step in which processScannedISBN was called
CallMade == lastCall'.flip # lastCall.flip

\* the most recent accepted submission
LastAccept == acceptLog[Len(acceptLog)]

NoSeparator(code) == \A i \in 1..Len(code) : code[i] \notin (Whitespace \cup {"-"})

\* C1: in every reachable state at most one scan submission is in flight.
C1_AtMostOneInFlight == Cardinality(inflight) <= 1

\* a detection of another code was turned away while a submission was in flight
C1_Witness ==
    /\ Cardinality(inflight) = 1
    /\ ~lastCall.accepted
    /\ lastScannedISBN # <<>>
    /\ lastCall.isbn # lastScannedISBN

\* C2: a call of processScannedISBN accepts its code if and only if
\* isProcessing is false and the code differs from lastScannedISBN; on
\* acceptance isProcessing is true and lastScannedISBN is that code while the
\* submission has not taken its first asynchronous step.
C2_AcceptedIffIdleAndNew ==
    [][CallMade =>
        /\ lastCall'.accepted <=>
               (~isProcessing /\ lastCall'.isbn # lastScannedISBN)
        /\ lastCall'.accepted =>
               /\ isProcessing'
               /\ lastScannedISBN' = lastCall'.isbn
               /\ requests' = requests
               /\ \E call \in inflight' \ inflight :
                      call.isbn = lastCall'.isbn /\ call.phase = "deviceId"]_vars

C2_Witness ==
    /\ lastCall.accepted
    /\ isProcessing
    /\ lastScannedISBN = lastCall.isbn
    /\ \E call \in inflight : call.phase = "deviceId"

\* C3: the same code is never accepted twice within the debounce window: any
\* two acceptances of one code lie at least DEBOUNCE_DELAY apart.
C3_NoResubmitWithinWindow ==
    \A i, j \in 1..Len(acceptLog) :
        (i < j /\ acceptLog[i].isbn = acceptLog[j].isbn)
            => acceptLog[j].at >= acceptLog[i].at + DEBOUNCE_DELAY

\* C4: a detection of the code accepted last, made within the window while
\* that submission has not completed, is not accepted; once the timer of that
\* acceptance has fired and its submission has completed, a detection of the
\* same code is accepted.
C4_OnceThenAgainAfterWindow ==
    [][(CallMade /\ acceptLog # <<>> /\ lastCall'.isbn = LastAccept.isbn) =>
        /\ ((\E call \in inflight : call.id = Len(acceptLog))
                /\ now < LastAccept.at + DEBOUNCE_DELAY)
               => (~lastCall'.accepted /\ acceptLog' = acceptLog)
        /\ ((\A call \in inflight : call.id # Len(acceptLog))
                /\ (\A t \in timers : t.id # Len(acceptLog)))
               => (lastCall'.accepted /\ Len(acceptLog') = Len(acceptLog) + 1)]_vars

\* the code was accepted, accepted again after the window, and a further
\* detection during the second submission was turned away
C4_Witness ==
    /\ Len(acceptLog) = 2
    /\ acceptLog[1].isbn = acceptLog[2].isbn
    /\ acceptLog[2].at >= acceptLog[1].at + DEBOUNCE_DELAY
    /\ inflight # {}
    /\ ~lastCall.accepted
    /\ lastCall.isbn = acceptLog[2].isbn

\* C5: when no submission is in flight, a detected code different from
\* lastScannedISBN is accepted, also while the reset timer of the previous
\* code is still pending.
C5_DifferentCodeAccepted ==
    [][(CallMade /\ inflight = {} /\ lastCall'.isbn # lastScannedISBN)
           => (lastCall'.accepted /\ Len(acceptLog') = Len(acceptLog) + 1)]_vars

\* a second, different code was accepted inside the window of the first
C5_Witness ==
    /\ Len(acceptLog) >= 2
    /\ acceptLog[2].isbn # acceptLog[1].isbn
    /\ acceptLog[2].at < acceptLog[1].at + DEBOUNCE_DELAY

\* C6: isProcessing is true exactly when one submission is in flight, and the
\* step that completes a submission leaves isProcessing false whatever the
\* outcome.
C6_BusyIffInFlight ==
    /\ [](isProcessing <=> Cardinality(inflight) = 1)
    /\ [][Cardinality(inflight') < Cardinality(inflight)
              => (~isProcessing' /\ inflight' = {})]_vars

\* a submission ended in a network failure and the device is idle again
C6_Witness ==
    /\ acceptLog # <<>>
    /\ inflight = {}
    /\ ~isProcessing
    /\ ~scanSuccess
    /\ scanMessage = "Network error. Please check your internet connection and try again."

\* C7 as claimed: every isbn sent to POST /api/scan, from the camera as from
\* manual entry, has exactly 10 or 13 characters and no hyphen or whitespace.
C7_EveryRequestValidated ==
    \A i \in 1..Len(requests) :
        Len(requests[i].isbn) \in {10, 13} /\ NoSeparator(requests[i].isbn)

\* C7 as amended: every isbn sent to POST /api/scan from manual entry has
\* exactly 10 or 13 characters and no hyphen or whitespace.
C7_ManualRequestValidated ==
    \A i \in 1..Len(requests) :
        requests[i].via = "manual" =>
            Len(requests[i].isbn) \in {10, 13} /\ NoSeparator(requests[i].isbn)

C7_Witness == \E i \in 1..Len(requests) : requests[i].via = "manual"

\* C8: handleSubmit hands a text on if and only if the text, stripped of
\* whitespace and hyphens, matches ^[0-9]{9}[0-9Xx]$ or ^[0-9]{13}$.
C8_AcceptsIffPattern ==
    [][handleSubmit =>
        (CallMade <=> (\/ MatchesISBN10(StripSeparators(isbn))
                       \/ MatchesISBN13(StripSeparators(isbn))))]_vars

\* C9: for a text that matches one of the two patterns, the code handleSubmit
\* hands on is the text with whitespace and hyphens removed and letters
\* uppercased.
C9_HandsOnUppercase ==
    [][(/\ handleSubmit
        /\ \/ MatchesISBN10(StripSeparators(isbn))
           \/ MatchesISBN13(StripSeparators(isbn)))
           => (CallMade /\ lastCall'.isbn = ToUpperCase(StripSeparators(isbn)))]_vars

\* C10: a text whose length after stripping separators is neither 10 nor 13
\* is rejected: processScannedISBN is not called, no request is sent and
\* isProcessing, lastScannedISBN and the reset timer are unchanged.
C10_BadLengthRejected ==
    [][(handleSubmit /\ Len(StripSeparators(isbn)) \notin {10, 13}) =>
        /\ ~CallMade
        /\ error' # ""
        /\ UNCHANGED <<debounce, timers, inflight, requests, acceptLog,
                       showManualEntry, isbn>>]_vars

\* a three-character text was rejected while a submission was in flight
C10_Witness ==
    /\ showManualEntry
    /\ isbn = Short
    /\ error = "ISBN must be 10 or 13 digits"
    /\ isProcessing

\* C11: every accepted detection causes exactly one request and a rejected
\* detection none: the requests sent are, in order, the accepted detections
\* whose submission has passed its device-id lookup; a rejected detection
\* sends nothing and starts nothing; the step that completes a submission,
\* successfully or not, sends nothing.
C11_OneRequestPerAcceptance ==
    /\ [](/\ Len(requests) + Cardinality({c \in inflight : c.phase = "deviceId"})
              = Len(acceptLog)
          /\ \A i \in 1..Len(requests) :
                 /\ requests[i].isbn = acceptLog[i].isbn
                 /\ requests[i].via = acceptLog[i].via)
    /\ [][(CallMade /\ ~lastCall'.accepted)
              => (requests' = requests /\ inflight' = inflight)]_vars
    /\ [][Cardinality(inflight') < Cardinality(inflight)
              => requests' = requests]_vars

\* two submissions were sent once each, the second one failed, and a further
\* detection was turned away
C11_Witness ==
    /\ Len(acceptLog) = 2
    /\ Len(requests) = 2
    /\ inflight = {}
    /\ ~scanSuccess
    /\ ~lastCall.accepted

\* a step in which the pending call of postScanToAPI resolves on outcome o
Settles(o) == \E call \in inflight : settle(call, o)

\* C12: when the response is ok, its body has success true and no warning,
\* the result is a success whose book is the book of the response, null when
\* the response has none.
C12_SuccessCarriesBook ==
    [][\A o \in Outcomes :
          (/\ Settles(o)
           /\ o.kind = "response" /\ o.ok
           /\ o.data.success /\ o.data.warning = "")
              => (/\ scanSuccess'
                  /\ scanMessage' = "Scan saved successfully!"
                  /\ scannedBook' = o.data.book)]_vars

\* a success with the book of the response is on the screen
C12_Witness ==
    /\ inflight = {}
    /\ scanSuccess
    /\ scanMessage = "Scan saved successfully!"
    /\ scannedBook = <<"book", "Computer Networks">>

\* C13: when the response is ok and its body has success true and a warning,
\* the result has success true, the warning as message and book null, also
\* when the body carries a book; the confirmation modal, when it is open,
\* then shows the title of a saved scan, the warning and no book section.
C13_WarningIsPartialSuccess ==
    [][\A o \in Outcomes :
          (/\ Settles(o)
           /\ o.kind = "response" /\ o.ok
           /\ o.data.success /\ o.data.warning # "")
              => (/\ scanSuccess'
                  /\ scanMessage' = o.data.warning
                  /\ scannedBook' = Null
                  /\ showConfirmModal' =>
                         ConfirmationModal' =
                             [visible |-> TRUE, loading |-> FALSE,
                              title |-> "Scan Saved!", book |-> Null,
                              message |-> o.data.warning])]_vars

\* the open modal shows a saved scan with the warning
C13_Witness ==
    /\ inflight = {}
    /\ scanSuccess
    /\ ConfirmationModal =
           [visible |-> TRUE, loading |-> FALSE, title |-> "Scan Saved!",
            book |-> Null, message |-> "Could not fetch book metadata"]

C15_EveryExceptionIsNetworkError ==
    [][\A o \in Outcomes :
          (Settles(o) /\ o.kind = "throw")
              => (/\ ~scanSuccess'
                  /\ scannedBook' = Null
                  /\ scanMessage' =
                         "Network error. Please check your internet connection and try again.")]_vars

\* C15 as amended: every exception thrown while sending the request or
\* reading the response gives a failure without book; its message is the
\* network-error message when the exception is a TypeError whose text
\* contains 'Network request failed', otherwise the text of the exception,
\* or 'Unknown error occurred' when the thrown value is not an Error.
C15_ExceptionIsFailure ==
    [][\A o \in Outcomes :
          (Settles(o) /\ o.kind = "throw")
              => (/\ ~scanSuccess'
                  /\ scannedBook' = Null
                  /\ scanCount' = scanCount
                  /\ scanMessage' =
                         IF o.class = "TypeError" /\ o.message = "Network request failed"
                         THEN "Network error. Please check your internet connection and try again."
                         ELSE IF o.class \in {"TypeError", "SyntaxError"}
                         THEN o.message
                         ELSE "Unknown error occurred")]_vars

\* response.json() threw and the text of its exception is on the screen
C15_Witness ==
    /\ inflight = {}
    /\ ~scanSuccess
    /\ scannedBook = Null
    /\ scanMessage = "JSON Parse error"

\* C16: no accepted submission is dropped silently: the step that completes
\* a submission leaves the confirmation modal open on the result of that
\* submission, whatever the user did while the request was loading. (The
\* modal is opened only by an acceptance, loading, and leaves loading only in
\* the step that completes the submission, so a result that is not on the
\* screen after that step is never shown.)
C16_OutcomeRendered ==
    [][\A call \in inflight :
          (\A c \in inflight' : c.id # call.id)
              => (/\ ConfirmationModal'.visible
                  /\ ~ConfirmationModal'.loading
                  /\ scannedISBN' = call.isbn)]_vars

\* C17: an in-flight submission is bounded by a request timeout: whenever
\* isProcessing is true it is false again later, also when the transport
\* never answers.
C17_BusyEventuallyFalse == isProcessing ~> ~isProcessing

\* C18: for every request with a valid ISBN the endpoint persists exactly one
\* ScanEvent, for the normalised ISBN and the device of the request, and
\* answers success; when the Metadata Provider gave no metadata the answer
\* is still success, with book null and a warning; no step removes a
\* ScanEvent.
C18_ScanEventSurvivesProviderFailure ==
    /\ [](\A r \in responses :
             /\ accepts(r.isbn) =>
                    /\ r.success
                    /\ \E e \in scanEvents :
                           /\ e.scan_id = r.scan_id
                           /\ e.isbn = normalize(r.isbn)
                           /\ e.scanner_id = r.scanner_id
                    /\ Cardinality({e \in scanEvents : e.scan_id = r.scan_id}) = 1
             /\ r.lookup \in {"NotFound", "ProviderError"} =>
                    (r.success /\ r.book = Null /\ r.warning # ""))
    /\ [][scanEvents \subseteq scanEvents']_vars

\* a request was answered with a warning after a ProviderError and its
\* ScanEvent is in the store
C18_Witness ==
    \E r \in responses :
        /\ r.lookup = "ProviderError"
        /\ r.success /\ r.book = Null /\ r.warning # ""
        /\ \E e \in scanEvents : e.scan_id = r.scan_id

\* ScanEvent rows that reference this ISBN
EventsOf(code) == {e \in scanEvents : e.isbn = code}

\* requests for this ISBN whose ScanEvent is written and whose Book write is
\* still to come
Pending(code) == {h \in handlers : h.isbn = code /\ h.pc # "insertScanEvent"}

\* C19 as claimed: when no request is being handled, under the stub and under
\* the skip policy, the scan_count of every Book equals the number of
\* ScanEvent rows that reference its ISBN.
C19_ScanCountMatchesEvents ==
    handlers = {} =>
        \A i \in 1..Len(books) :
            books[i].scan_count = Cardinality(EventsOf(books[i].isbn))

\* C19 as amended: under the stub policy the scan_count of every Book equals
\* the number of ScanEvent rows that reference its ISBN, less the requests
\* for that ISBN whose Book write is still to come, none when no request is
\* being handled; under the skip policy scan_count never exceeds that number.
C19_ScanCountMatchesEventsUnderStub ==
    \A i \in 1..Len(books) :
        /\ books[i].scan_count >= 1
        /\ books[i].scan_count
               <= Cardinality(EventsOf(books[i].isbn))
                      - Cardinality(Pending(books[i].isbn))
        /\ policy = "stub" =>
               books[i].scan_count
                   = Cardinality(EventsOf(books[i].isbn))
                         - Cardinality(Pending(books[i].isbn))

\* under the stub policy a Book created as a stub after a provider failure
\* was scanned again, and no request is being handled
C19_Witness ==
    /\ policy = "stub"
    /\ handlers = {}
    /\ \E i \in 1..Len(books) :
           /\ books[i].title = ""
           /\ books[i].scan_count = 2
           /\ Cardinality(EventsOf(books[i].isbn)) = 2

AcceptedOf(code) == {i \in 1..Len(acceptLog) : acceptLog[i].isbn = code}

\* every accepted submission has been sent, received and handled to the end
AllHandled == Received = Len(acceptLog) /\ handlers = {}

C22_ValidationPrecedesWrites ==
    /\ [](/\ \A r \in responses :
                 ~accepts(r.isbn) =>
                     /\ ~r.success
                     /\ r.code = IF r.isbn = Null THEN "MISSING_ISBN"
                                  ELSE "INVALID_ISBN"
                     /\ r.book = Null
                     /\ r.lookup = "none"
                     /\ \A e \in scanEvents : e.scan_id # r.scan_id
          /\ \A h \in handlers : accepts(h.raw))
    /\ [][\A r \in responses' \ responses :
              ~r.success => UNCHANGED <<books, scanEvents, handlers>>]_vars

\* a request without isbn and a request with a malformed isbn were rejected
\* while the store holds the ScanEvent and the Book of another request
C22_Witness ==
    /\ \E r \in responses : r.code = "MISSING_ISBN" /\ r.isbn = Null
    /\ \E r \in responses : r.code = "INVALID_ISBN" /\ r.isbn = Short
    /\ Cardinality(scanEvents) = 1
    /\ Len(books) = 1

\* a step in which the callback of a reset timer runs
TimerFires == \E t \in timers : debounceTimeout(t)

\* C23 as claimed: when the reset timer fires while a submission is in
\* flight, lastScannedISBN is cleared and isProcessing stays true; in that
\* state a detection of a code other than the one in flight is accepted and
\* a detection of the code in flight is not.
C23_NewCodeAcceptedWhileBusy ==
    /\ [][(TimerFires /\ inflight # {})
              => (lastScannedISBN' = <<>> /\ isProcessing' /\ inflight' = inflight)]_vars
    /\ [][(CallMade /\ inflight # {} /\ lastScannedISBN = <<>>)
              => (lastCall'.accepted
                      <=> \A call \in inflight : call.isbn # lastCall'.isbn)]_vars

\* C23 as amended: when the reset timer fires while a submission is in
\* flight, lastScannedISBN is cleared and isProcessing stays true; in that
\* state every detection, of the code in flight as of any other code, is
\* turned away by isProcessing and changes nothing.
C23_AllBlockedWhileBusy ==
    /\ [][(TimerFires /\ inflight # {})
              => (lastScannedISBN' = <<>> /\ isProcessing' /\ inflight' = inflight)]_vars
    /\ [][(CallMade /\ inflight # {} /\ lastScannedISBN = <<>>)
              => (/\ ~lastCall'.accepted
                  /\ UNCHANGED <<debounce, runtime, acceptLog, requests>>)]_vars

\* the timer has fired during a submission that is still in flight, and a
\* detection of another code was turned away since
C23_Witness ==
    /\ inflight # {}
    /\ isProcessing
    /\ lastScannedISBN = <<>>
    /\ timers = {}
    /\ ~lastCall.accepted
    /\ \A call \in inflight : call.isbn # lastCall.isbn

\* C24: a submission that completes, whatever its outcome, leaves
\* lastScannedISBN and the pending reset timer as they were; so after a failed
\* submission of a code, a new detection of that code is turned away while
\* the reset timer of its acceptance is pending and accepted once it fired.
C24_CompletionKeepsWindow ==
    /\ [][\A o \in Settlements :
              Settles(o) => UNCHANGED <<lastScannedISBN, scanDebounceTimer, timers>>]_vars
    /\ [][(/\ CallMade
           /\ acceptLog # <<>>
           /\ inflight = {} /\ ~isProcessing /\ ~scanSuccess
           /\ lastCall'.isbn = LastAccept.isbn)
              => (lastCall'.accepted <=> timers = {})]_vars

\* the submission of a code failed, and the code was accepted again once the
\* window of its first acceptance had passed
C24_Witness ==
    /\ Len(acceptLog) = 2
    /\ acceptLog[1].isbn = acceptLog[2].isbn
    /\ acceptLog[2].at >= acceptLog[1].at + DEBOUNCE_DELAY
    /\ scanCount = 0
    /\ inflight # {}

\* C25: nothing cancels a submission. Closing the confirmation modal while
\* the request is in flight leaves the request, isProcessing,
\* lastScannedISBN and the reset timer as they were; a submission leaves
\* flight only by settling; and every detection made while it is in flight,
\* after the modal was closed as before, is turned away.
C25_NoCancellation ==
    /\ [][(showConfirmModal /\ ~showConfirmModal' /\ inflight # {})
              => UNCHANGED <<inflight, requests, isProcessing, isLoading,
                             lastScannedISBN, scanDebounceTimer, timers>>]_vars
    /\ [][(inflight # {} /\ inflight' # inflight)
              => \/ \E o \in Settlements : Settles(o)
                 \/ \E call \in inflight : sendRequest(call)]_vars
    /\ [][(CallMade /\ inflight # {})
              => (~lastCall'.accepted /\ UNCHANGED <<debounce, runtime>>)]_vars

\* the modal was closed while the request was in flight, the request is still
\* in flight, and a detection made since was turned away
C25_Witness ==
    /\ inflight # {}
    /\ isProcessing
    /\ ~showConfirmModal
    /\ isActive
    /\ isLoading
    /\ ~lastCall.accepted
    /\ lastCall.isbn # lastScannedISBN
    /\ timers # {}

\* C26: a call of processScannedISBN that turns its code away writes nothing:
\* isProcessing, lastScannedISBN, the timer handle and the pending timer, the
\* submissions in flight, scanCount and what the screen and the confirmation
\* modal show are unchanged, and a detection by the camera changes no state
\* at all; so every pending reset timer is still due DEBOUNCE_DELAY after the
\* acceptance that scheduled it, however often the code was detected since.
C26_RejectionChangesNothing ==
    /\ [][(CallMade /\ ~lastCall'.accepted)
              => UNCHANGED <<screen, debounce, runtime, acceptLog, requests>>]_vars
    /\ [][(CallMade /\ ~lastCall'.accepted /\ ~showManualEntry)
              => UNCHANGED <<screen, showManualEntry, debounce, entry, textbook, now,
                             runtime, acceptLog, requests, server>>]_vars
    /\ [](\A t \in timers :
              /\ t.id \in 1..Len(acceptLog)
              /\ t.due = acceptLog[t.id].at + DEBOUNCE_DELAY)

\* the last code was detected again after its submission completed, later
\* than its acceptance and with its reset timer pending, and was turned away
C26_Witness ==
    /\ ~lastCall.accepted
    /\ lastCall.isbn = lastScannedISBN
    /\ ~isProcessing
    /\ inflight = {}
    /\ isActive
    /\ scanCount = 1
    /\ \E t \in timers : t.due > now /\ now > acceptLog[t.id].at

\* the last instant the clock of the model reaches
ClockEnd == (MaxTime \div TickStep) * TickStep

\* C27: at most one reset timer is pending, namely the one scanDebounceTimer
\* names, and lastScannedISBN is non-empty exactly when a reset timer is
\* pending; hence a non-empty lastScannedISBN is eventually cleared or
\* replaced by a later acceptance (for every timer due before the clock of
\* the model ends).
C27_OneTimerAndLastCodeCleared ==
    /\ [](/\ Cardinality(timers) <= 1
          /\ \A t \in timers : t.id = scanDebounceTimer
          /\ (lastScannedISBN # <<>>) <=> (timers # {}))
    /\ \A n \in 1..MaxScans :
           (/\ lastScannedISBN # <<>>
            /\ Len(acceptLog) = n
            /\ \A t \in timers : t.due <= ClockEnd)
               ~> (lastScannedISBN = <<>> \/ Len(acceptLog) > n)

\* a second acceptance has replaced the timer of the first while it was
\* pending: one timer, the second one, is pending
C27_Witness ==
    /\ Len(acceptLog) = 2
    /\ acceptLog[2].at < acceptLog[1].at + DEBOUNCE_DELAY
    /\ timers = {[id |-> 2, due |-> acceptLog[2].at + DEBOUNCE_DELAY]}
    /\ lastScannedISBN = acceptLog[2].isbn

\* C28: the camera is never inactive with neither the confirmation modal nor
\* the manual-entry modal visible; in particular after a manual-entry submit
\* either the confirmation modal is shown or the camera is active again, also
\* when processScannedISBN turns the entered code away.
C28_CameraOrModal == isActive \/ showConfirmModal \/ showManualEntry

\* the confirmation modal is visible and shows an outcome, not the spinner
ShowsOutcome == showConfirmModal /\ ~isLoading

\* C29: whenever the confirmation modal is visible and not loading, the
\* success flag, message and book it shows are the outcome of the submission
\* of the ISBN it shows: it shows the ISBN of the last accepted submission,
\* which has completed; it comes to show an outcome only in the step that
\* completes the submission of that ISBN, with the result of that step; and
\* while it goes on showing an outcome, ISBN and outcome stay as they are.
C29_OutcomeOfDisplayedISBN ==
    /\ [](ShowsOutcome =>
              /\ acceptLog # <<>>
              /\ scannedISBN = LastAccept.isbn
              /\ inflight = {})
    /\ [][(~ShowsOutcome /\ ShowsOutcome') =>
              \E call \in inflight, o \in Settlements :
                  /\ settle(call, o)
                  /\ scannedISBN' = call.isbn
                  /\ call.id = Len(acceptLog)
                  /\ scanSuccess' = postScanToAPI(o).success
                  /\ scanMessage' = postScanToAPI(o).message
                  /\ scannedBook' = postScanToAPI(o).book]_vars
    /\ [][(ShowsOutcome /\ ShowsOutcome') =>
              UNCHANGED <<scannedISBN, bookType, scanSuccess, scanMessage,
                          scannedBook>>]_vars

\* a first submission succeeded, and the modal now shows the failure of the
\* second submission with the second, different ISBN
C29_Witness ==
    /\ ShowsOutcome
    /\ Len(acceptLog) = 2
    /\ acceptLog[1].isbn # acceptLog[2].isbn
    /\ scannedISBN = acceptLog[2].isbn
    /\ scanCount = 1
    /\ ~scanSuccess
    /\ ConfirmationModal.title = "Error"
    /\ ConfirmationModal.message # ""

\* the shape of a ScanResult
IsScanResult(r) ==
    /\ DOMAIN r = {"success", "message", "book"}
    /\ r.success \in BOOLEAN
    /\ r.message \in STRING

Completes == \E o \in Settlements : Settles(o)

\* C31: scanCount, shown as 'Books scanned', is the number of submissions
\* that have completed with success true, partial successes with a warning
\* included: it starts at 0, a completion with success true raises it by
\* one, and nothing else changes it (a failed completion, a rejected or an
\* accepted detection, the timer, the modals); so it never decreases.
C31_ScanCountIsSuccesses ==
    /\ scanCount = 0
    /\ [][\A o \in Settlements :
              Settles(o) => scanCount' = scanCount +
                                (IF postScanToAPI(o).success THEN 1 ELSE 0)]_vars
    /\ [][~Completes => scanCount' = scanCount]_vars
    /\ [][scanCount' >= scanCount]_vars

\* three submissions have completed: two were counted, the last of them a
\* partial success with the warning as its message, and one failed
C31_Witness ==
    /\ Len(acceptLog) = 3
    /\ inflight = {}
    /\ scanCount = 2
    /\ scanSuccess
    /\ scannedBook = Null
    /\ scanMessage = "Could not fetch book metadata"
    /\ showConfirmModal

\* C32: the status of the response comes before the success flag of its
\* body. A response that is not ok completes the submission as a failure
\* also when its body says success true; an ok response whose body says
\* success false completes it as a failure whose message is the error text
\* of the body, or 'Unknown error occurred' when there is none, whatever
\* code the body carries; neither raises scanCount nor shows a book.
C32_StatusBeforeBody ==
    /\ [][\A o \in Outcomes :
              (Settles(o) /\ o.kind = "response" /\ ~o.ok /\ o.data.success)
                  => (/\ ~scanSuccess'
                      /\ scannedBook' = Null
                      /\ scanMessage' \notin {"Scan saved successfully!", o.data.warning}
                      /\ scanCount' = scanCount)]_vars
    /\ [][\A o \in Outcomes :
              (Settles(o) /\ o.kind = "response" /\ o.ok /\ ~o.data.success)
                  => (/\ ~scanSuccess'
                      /\ scannedBook' = Null
                      /\ scanMessage' = IF o.data.error # "" THEN o.data.error
                                        ELSE "Unknown error occurred"
                      /\ scanCount' = scanCount)]_vars

\* a submission has completed as a failure and the screen holds the error
\* text of the body as its message
C32_Witness ==
    /\ inflight = {}
    /\ ~isLoading
    /\ ~scanSuccess
    /\ scanCount = 0
    /\ scanMessage = "Invalid ISBN format"
    /\ ConfirmationModal.title = "Error"

\* the ISBN is in the textbook list, whatever hyphens and blanks the queried
\* ISBN and the list entry are written with
Listed(code) ==
    \E i \in 1..Len(TextbookData) :
        StripSeparators(TextbookData[i]) = StripSeparators(code)

\* C33: getBookType returns 'textbook' if and only if the textbook list has
\* been loaded and the ISBN is in it, whatever hyphens and blanks the queried
\* ISBN and the list entries are written with; before the load every ISBN is
\* 'other'; and a further call of loadTextbookISBNs after a load changes
\* nothing.
C33_TextbookIffListed ==
    /\ [][\A code \in Queries :
              classify(code) =>
                  (bookType' = "textbook" <=> (isLoaded /\ Listed(code)))]_vars
    /\ [][isLoaded => UNCHANGED textbook]_vars

====
